---- MODULE Spec2Model ----
(***************************************************************************)
(* Model of pie_top (src/src/main.rs): the refresh tasks (fetch_pies),     *)
(* the shared pie map behind a tokio Mutex, the GUI thread's snapshots     *)
(* (PieTopApp::update) and the periodic saver thread (main).               *)
(*                                                                         *)
(* Values.  f64 and String fields are drawn from 1..MaxVal; an Option      *)
(* field is None (0) or Some(v) (v >= 1).                                  *)
(*                                                                         *)
(* Steps.  A fetch_pies task takes one step from an await (a remote call,  *)
(* the wait for the Mutex) to the next; what it does in between, holding   *)
(* the guard or touching only its locals, is part of that step.  The GUI   *)
(* thread and the saver thread take one step per try_lock and one for the  *)
(* section under the guard.  Both snapshot sites of update (lines 139 and  *)
(* 182) are the same code and are modelled by ReaderSnapshot.              *)
(*                                                                         *)
(* Specifications.  Spec and SpecHist are the running program after a      *)
(* startup that went well.  SpecBoot is the startup on any pies.json and   *)
(* the saver thread, over launches of the program.  SpecRate, SpecTotals   *)
(* and SpecShape run calculate_annual_rate, the totals of update and the   *)
(* parsing and merging of one list response on their own, on any input.    *)
(* SpecHistory runs the total-value history of update on any readings of   *)
(* the wall clock.  SpecOrder is the fetch_pies tasks with the order in    *)
(* which their list responses were received.  SpecLive is the program      *)
(* running on without end under fair scheduling.                           *)
(***************************************************************************)
EXTENDS Integers, Naturals, Sequences, FiniteSets, TLC

\* ---------------------------------------------------------------- bounds
MaxId     == 2      \* pie ids are 1..MaxId
MaxVal    == 2      \* field values are 1..MaxVal
MaxList   == 2      \* longest list response
MaxTasks  == 2      \* refresh tasks that can be alive at once
MaxCycles == 2      \* refresh tasks spawned in one run

Ids   == 1..MaxId
Vals  == 1..MaxVal
Tasks == 1..MaxTasks

None    == 0

\* ------------------------------------------------------------ struct Pie
Pie(i, c, d, r, pr, s, ca, nm) ==
    [id |-> i, cash |-> c, dividend_details |-> d, result |-> r,
     progress |-> pr, status |-> s, created_at |-> ca, name |-> nm]

\* The pies a list response can hold.  One response value v stands for the
\* live fields of a pie (cash, dividendDetails, result, progress, status);
\* created_at and name are absent (serde fills None) or both carried.
RawPies == { Pie(i, v, v, v, v, v, e, e) : i \in Ids, v \in Vals, e \in {None, 1} }

NoPie == Pie(0, 0, 0, 0, 0, 0, None, None)

\* the bodies serde_json parses into pies_v: each pie is listed once
PieLists ==
    { l \in UNION { [1..k -> RawPies] : k \in 0..MaxList } :
        \A a, b \in DOMAIN l : a # b => l[a].id # l[b].id }

\* HashMap<usize, Pie>: a function from the keys present to records
EmptyMap == [k \in {} |-> NoPie]

Values(m) == { m[k] : k \in DOMAIN m }

\* mutant: every pie is entered under one key
Key_one(pie) == 1

\* pie.id as usize, the key of entry(): a u64 id is its own key
Key(pie) == pie.id

\* p.created_at.is_none() || p.name.is_none()
NeedsEnrichment(p) == p.created_at = None \/ p.name = None

\* mutant: the check is made on the listed pie, not on the stored entry
FetchNeeded_raw(m, pie) == NeedsEnrichment(pie)

\* the check made on the entry p that or_insert returned
FetchNeeded(m, pie) == NeedsEnrichment(m[Key(pie)])

\* mutant: the map is rebuilt around the listed pie
OrInsert_replace(m, key, pie) ==
    [k \in {key} |-> IF k \in DOMAIN m THEN m[k] ELSE pie]

\* map.entry(key).or_insert(pie)
OrInsert(m, key, pie) ==
    [k \in DOMAIN m \cup {key} |-> IF k \in DOMAIN m THEN m[k] ELSE pie]

\* what get_pie_details returns
MetaErr == [st |-> "Err", creation_date |-> 0, name |-> 0]
MetaOk(c, n) == [st |-> "Ok", creation_date |-> c, name |-> n]
NoMeta == [st |-> "none", creation_date |-> 0, name |-> 0]
MetaAnswers == {MetaErr} \cup { MetaOk(v, v) : v \in Vals }

\* mutant: only the name of the answer is stored
SetEnrichment_nameOnly(p, ans) ==
    IF ans.st = "Ok"
    THEN [p EXCEPT !.name = IF @ = None THEN ans.name ELSE @]
    ELSE p

\* mutant: the answer is stored without the is_none checks
SetEnrichment_overwrite(p, ans) ==
    IF ans.st = "Ok"
    THEN [p EXCEPT !.created_at = ans.creation_date, !.name = ans.name]
    ELSE p

\* if let Ok((create_date, name)) = ... { if p.created_at.is_none() {..}
\* if p.name.is_none() {..} }
SetEnrichment(p, ans) ==
    IF ans.st = "Ok"
    THEN [p EXCEPT !.created_at = IF @ = None THEN ans.creation_date ELSE @,
                   !.name = IF @ = None THEN ans.name ELSE @]
    ELSE p

\* the maps load_map can restore at startup: none, a record with both
\* enrichment fields, a record with its name only
RestoredMaps ==
    { EmptyMap,
      [k \in {1} |-> Pie(1, 1, 1, 1, 1, 1, 1, 1)],
      [k \in {1} |-> Pie(1, 1, 1, 1, 1, 1, None, 1)] }

\* ----------------------------------------------- pies.json, serde_json
\* A JSON scalar: null, a number, a string, or a member that is absent
\* from its object.  f64 and u64 are written as numbers, String as a
\* string, Option::None as null.
Null   == [t |-> "null", v |-> 0]
Absent == [t |-> "absent", v |-> 0]
Num(x) == [t |-> "num", v |-> x]
Str(x) == [t |-> "str", v |-> x]

OptNum(x) == IF x = None THEN Null ELSE Num(x)
OptStr(x) == IF x = None THEN Null ELSE Str(x)

\* mutant: created_at is written under a camel-case key, like the renamed
\* members, so the member created_at is absent from the object
SerializePie_camel(p) ==
    [id |-> Num(p.id), cash |-> Num(p.cash),
     dividendDetails |-> Num(p.dividend_details), result |-> Num(p.result),
     progress |-> OptNum(p.progress), status |-> OptStr(p.status),
     created_at |-> Absent, name |-> OptStr(p.name)]

\* #[derive(Serialize)] struct Pie, with dividend_details renamed
SerializePie(p) ==
    [id |-> Num(p.id), cash |-> Num(p.cash),
     dividendDetails |-> Num(p.dividend_details), result |-> Num(p.result),
     progress |-> OptNum(p.progress), status |-> OptStr(p.status),
     created_at |-> OptNum(p.created_at), name |-> OptStr(p.name)]

\* an Option member: absent or null is None
FromOpt(j) == IF j.t \in {"null", "absent"} THEN None ELSE j.v

\* #[derive(Deserialize)] struct Pie: the members an object must have
DeserializeOk(o) ==
    /\ o.id.t = "num" /\ o.cash.t = "num"
    /\ o.dividendDetails.t = "num" /\ o.result.t = "num"
    /\ o.progress.t \in {"num", "null", "absent"}
    /\ o.status.t \in {"str", "null", "absent"}
    /\ o.created_at.t \in {"num", "null", "absent"}
    /\ o.name.t \in {"str", "null", "absent"}

DeserializePie(o) ==
    Pie(o.id.v, o.cash.v, o.dividendDetails.v, o.result.v,
        FromOpt(o.progress), FromOpt(o.status),
        FromOpt(o.created_at), FromOpt(o.name))

\* The file pies.json: missing, unreadable, text that is not JSON, or a
\* JSON object; members maps the key strings of the object to its values.
NoMembers == [k \in {} |-> Null]
NoFile == [kind |-> "missing", members |-> NoMembers]
Unreadable == [kind |-> "unreadable", members |-> NoMembers]
NotJson == [kind |-> "broken", members |-> NoMembers]
JsonFile(ms) == [kind |-> "json", members |-> ms]

\* serde_json::to_string_pretty(map): a usize key is written as a string
to_string_pretty(map) ==
    JsonFile([ks \in { Str(k) : k \in DOMAIN map } |-> SerializePie(map[ks.v])])

\* serde_json::from_str::<HashMap<usize, Pie>>(&data) succeeds
from_str_ok(file) ==
    /\ file.kind = "json"
    /\ \A ks \in DOMAIN file.members :
          ks.t = "str" /\ ks.v >= 0 /\ DeserializeOk(file.members[ks])

from_str(file) ==
    [k \in { ks.v : ks \in DOMAIN file.members } |->
        DeserializePie(file.members[Str(k)])]

\* load_map(path): File::open(path)? and read_to_string? return Err;
\* serde_json::from_str(&data).unwrap() panics on text that does not parse
load_map(file) ==
    IF file.kind \in {"missing", "unreadable"}
    THEN [st |-> "Err", map |-> EmptyMap]
    ELSE IF from_str_ok(file)
         THEN [st |-> "Ok", map |-> from_str(file)]
         ELSE [st |-> "panic", map |-> EmptyMap]

\* ------------------------------------------- the metadata response
\* What client.get(url).send() and the body of the answer can be: no
\* answer at all, or a JSON object whose settings member has a
\* creationDate and has, or has not, a name.
NoAnswer == [sent |-> FALSE, creationDate |-> Absent, name |-> Absent]
Settings(c, n) == [sent |-> TRUE, creationDate |-> c, name |-> n]
Nameless == { Settings(Num(v), Absent) : v \in Vals }
MetaResponses ==
    {NoAnswer} \cup { Settings(Num(v), Str(v)) : v \in Vals } \cup Nameless

\* #[derive(Deserialize)] struct Setting: creation_date is an f64 and name
\* a String, so both members must be in the object
DeserializeSetting(resp) ==
    resp.creationDate.t = "num" /\ resp.name.t = "str"

\* send().await? and response.json::<PieDetail>().await? return the Err
get_pie_details(resp) ==
    IF resp.sent /\ DeserializeSetting(resp)
    THEN MetaOk(resp.creationDate.v, resp.name.v)
    ELSE MetaErr

\* ------------------------------------------------------------- variables
VARIABLES
    pies,        \* Arc<Mutex<HashMap<usize, Pie>>>: the map
    lock,        \* the Mutex: who holds the guard
    tasks,       \* the spawned fetch_pies tasks
    cycles,      \* tasks spawned so far
    reader,      \* the GUI thread inside update
    pies_data,   \* update's local pies_data: the snapshot
    saver,       \* the saver thread
    disk,        \* content of pies.json
    hist,        \* history: the contents the map has had since startup,
                 \* the list responses in the order they were received,
                 \* the pie the remote service answers for without fail
    main,        \* the main thread: startup ("load"), the GUI loop, or a panic
    rate,        \* a call of calculate_annual_rate: arguments, clock, result
    totals,      \* update's locals total_initial, total_now, total_result_percent
    parsed,      \* one list of pies reconciled from its array and object forms
    total_value_history  \* PieTopApp: the points of the total-value chart

vars == <<pies, lock, tasks, cycles, reader, pies_data, saver, disk, hist,
          main, rate, totals, parsed, total_value_history>>

\* the variables of the functions that are also run on their own
calls == <<rate, totals, parsed, total_value_history>>

\* the Mutex is free or its guard is held by the GUI thread, the saver
\* thread or a fetch_pies task
Free       == [owner |-> "free", task |-> 0]
ByReader   == [owner |-> "reader", task |-> 0]
BySaver    == [owner |-> "saver", task |-> 0]
ByTask(t)  == [owner |-> "task", task |-> t]

\* a response text: what it parses to, and whether the characters
\* "BusinessException" or "error" occur somewhere in it
NoBody == [kind |-> "none", pies |-> <<>>, error |-> FALSE]

\* the pie lists taken with the characters "error" inside a string (the
\* status of a pie, a member that Pie does not have): those of one pie
\* that the API lists without created_at and name
ErrorLists == { l \in PieLists : Len(l) = 1 /\ l[1].name = None }

\* an error payload of the API, a text that is no pie list, a pie list in
\* one of the three shapes, and such a list with "error" in a string
Bodies ==
    {[kind |-> "business", pies |-> <<>>, error |-> TRUE],
     [kind |-> "garbage", pies |-> <<>>, error |-> FALSE]} \cup
    { [kind |-> "pies", pies |-> l, error |-> FALSE] : l \in PieLists } \cup
    { [kind |-> "pies", pies |-> l, error |-> TRUE] : l \in ErrorLists }

\* response_text.contains("BusinessException") ||
\* response_text.contains("error")
contains_error(response_text) == response_text.error

\* a task slot: the position in fetch_pies and its locals
IdleTask ==
    [pc |-> "idle", status |-> 0, body |-> NoBody, pies_v |-> <<>>,
     known |-> FALSE, ret |-> "none"]

\* the pie of the running loop iteration
CurPie(t) == Head(tasks[t].pies_v)

NoSnapshot == [got |-> FALSE, recs |-> {}]

\* the value 0.0 that calculate_annual_rate returns early, and what its
\* last line computes from final_value / initial_value and the elapsed
\* seconds: ((f / i).powf(365 * 86400 / elapsed) - 1) * 100
RateZero == [early |-> TRUE, final_value |-> 0, initial_value |-> 0, elapsed |-> 0]
Powf(f, i, e) == [early |-> FALSE, final_value |-> f, initial_value |-> i, elapsed |-> e]

\* an f64 quotient times 100, kept as a fraction
Percent(n, d) == [num |-> n * 100, den |-> d]

\* no call of calculate_annual_rate, no totals, no list under comparison
NoRate ==
    [pc |-> "none", initial_value |-> 0, final_value |-> 0, create_date |-> 0,
     now |-> 0, ret |-> RateZero]
NoTotals ==
    [pc |-> "none", total_initial |-> 0, total_now |-> 0,
     total_result_percent |-> Percent(0, 1)]
NoParsed ==
    [pc |-> "none", store |-> EmptyMap, list |-> <<>>, meta |-> <<>>,
     values |-> <<>>, array_done |-> FALSE, array |-> EmptyMap,
     object_done |-> FALSE, object |-> EmptyMap]

\* no history is kept: neither the contents of the map (on) nor the list
\* responses (order); good is the pie for which the remote calls have
\* begun to succeed for good, None while they may fail
NoHist ==
    [on |-> FALSE, seen |-> {}, order |-> FALSE, received |-> <<>>,
     overlap |-> FALSE, good |-> None]

\* the functions that are also run on their own are not in a call
NoCalls ==
    /\ rate = NoRate /\ totals = NoTotals /\ parsed = NoParsed
    /\ total_value_history = <<>>

\* the state after main's startup; the history is recorded when on is set
Startup(on) ==
    /\ pies \in RestoredMaps
    /\ lock = Free
    /\ tasks = [t \in Tasks |-> IdleTask]
    /\ cycles = 0
    /\ reader = "idle"
    /\ pies_data = NoSnapshot
    /\ saver = "sleep"
    /\ disk = to_string_pretty(pies)
    /\ hist = [NoHist EXCEPT !.on = on,
                             !.seen = IF on THEN {Values(pies)} ELSE {}]
    /\ main = "run"
    /\ NoCalls

Init == Startup(FALSE)

Record(m) == IF hist.on THEN [hist EXCEPT !.seen = @ \cup {Values(m)}] ELSE hist

\* history: a task is spawned while another has not returned
Overlap ==
    IF hist.order /\ \E u \in Tasks : tasks[u].pc \notin {"idle", "done"}
    THEN [hist EXCEPT !.overlap = TRUE]
    ELSE hist

\* history: the text b of the list response of task t is received
Received(t, b) ==
    IF hist.order
    THEN [hist EXCEPT !.received = Append(@, [task |-> t, pies |-> b.pies])]
    ELSE hist

SetTask(t, r) == [tasks EXCEPT ![t] = r]

\* fetch_pies returns; the slot keeps the status and the result
Return(st, res) == [IdleTask EXCEPT !.pc = "done", !.status = st, !.ret = res]

\* ------------------------------------------------- PieTopApp::update
\* mutant: no new task is spawned once a task has returned an error
Spawn_unlessErr(t) ==
    /\ cycles < MaxCycles
    /\ \A u \in Tasks : tasks[u].ret # "Err"
    /\ tasks[t].pc \in {"idle", "done"}
    /\ \A u \in 1..(t - 1) : tasks[u].pc \notin {"idle", "done"}
    /\ tasks' = SetTask(t, [IdleTask EXCEPT !.pc = "send"])
    /\ cycles' = cycles + 1
    /\ UNCHANGED <<pies, lock, reader, pies_data, saver, disk, hist, main, calls>>

\* the interval elapsed: tokio::spawn(fetch_pies); the task starts with
\* the list request in flight
Spawn(t) ==
    /\ cycles < MaxCycles
    /\ tasks[t].pc \in {"idle", "done"}
    /\ \A u \in 1..(t - 1) : tasks[u].pc \notin {"idle", "done"}
    /\ tasks' = SetTask(t, [IdleTask EXCEPT !.pc = "send"])
    /\ cycles' = cycles + 1
    /\ hist' = Overlap
    /\ UNCHANGED <<pies, lock, reader, pies_data, saver, disk, main, calls>>

\* ----------------------------------------------------------- fetch_pies
\* client.get(url).send().await?: a transport error, or a response
ListReturn(t) ==
    /\ tasks[t].pc = "send"
    /\ \/ tasks' = SetTask(t, Return(0, "Err"))
       \/ \E st \in {200, 429, 500} :
             tasks' = SetTask(t, [tasks[t] EXCEPT !.pc = "status", !.status = st])
    /\ UNCHANGED <<pies, lock, cycles, reader, pies_data, saver, disk, hist, main, calls>>

\* mutant: 429 is handled like every other non-2xx status
CheckStatus_no429(t) ==
    /\ tasks[t].pc = "status"
    /\ tasks' = SetTask(t, [tasks[t] EXCEPT !.pc = "text"])
    /\ UNCHANGED <<pies, lock, cycles, reader, pies_data, saver, disk, hist, main, calls>>

\* if !status.is_success() { if status == 429 { return Ok(()) } .. }
CheckStatus(t) ==
    /\ tasks[t].pc = "status"
    /\ tasks' = SetTask(t, IF tasks[t].status = 429
                           THEN Return(429, "Ok")
                           ELSE [tasks[t] EXCEPT !.pc = "text"])
    /\ UNCHANGED <<pies, lock, cycles, reader, pies_data, saver, disk, hist, main, calls>>

\* response.text().await?: a transport error (return Err); the text of a
\* non-2xx response (return Err); or the text of a 2xx response
TextReturn(t) ==
    /\ tasks[t].pc = "text"
    /\ \/ /\ tasks' = SetTask(t, Return(tasks[t].status, "Err"))
          /\ hist' = hist
       \/ /\ tasks[t].status = 200
          /\ \E b \in Bodies :
                /\ tasks' = SetTask(t, [tasks[t] EXCEPT !.pc = "body", !.body = b])
                /\ hist' = Received(t, b)
    /\ UNCHANGED <<pies, lock, cycles, reader, pies_data, saver, disk, main, calls>>

\* mutant: a body that does not parse counts as an empty list
ParseBody_lenient(t) ==
    /\ tasks[t].pc = "body"
    /\ tasks' = SetTask(t, [tasks[t] EXCEPT !.pc = "loop", !.body = NoBody,
                                            !.pies_v = tasks[t].body.pies])
    /\ UNCHANGED <<pies, lock, cycles, reader, pies_data, saver, disk, hist, main, calls>>

\* mutant: a business-error payload is passed over like a 429
ParseBody_businessOk(t) ==
    /\ tasks[t].pc = "body"
    /\ tasks' = SetTask(t, IF tasks[t].body.kind = "pies"
                           THEN [tasks[t] EXCEPT !.pc = "loop", !.body = NoBody,
                                                 !.pies_v = tasks[t].body.pies]
                           ELSE IF tasks[t].body.kind = "business"
                                THEN Return(200, "Ok")
                                ELSE Return(200, "Err"))
    /\ UNCHANGED <<pies, lock, cycles, reader, pies_data, saver, disk, hist, main, calls>>

\* the text contains "BusinessException" or "error": return Err; it
\* parses in none of the three shapes: return Err; else pies_v
ParseBody(t) ==
    /\ tasks[t].pc = "body"
    /\ tasks' = SetTask(t, IF contains_error(tasks[t].body)
                           THEN Return(200, "Err")
                           ELSE IF tasks[t].body.kind = "pies"
                                THEN [tasks[t] EXCEPT !.pc = "loop",
                                                      !.body = NoBody,
                                                      !.pies_v = tasks[t].body.pies]
                                ELSE Return(200, "Err"))
    /\ UNCHANGED <<pies, lock, cycles, reader, pies_data, saver, disk, hist, main, calls>>

\* for pie in pies_v: the list is exhausted, return Ok(())
LoopEnd(t) ==
    /\ tasks[t].pc = "loop"
    /\ tasks[t].pies_v = <<>>
    /\ tasks' = SetTask(t, Return(200, "Ok"))
    /\ UNCHANGED <<pies, lock, cycles, reader, pies_data, saver, disk, hist, main, calls>>

\* p.result = pie.result.clone()
WriteResult(m, pie) == [m EXCEPT ![Key(pie)].result = pie.result]

\* the end of the loop body: the guard is dropped, the loop goes on
NextPie(t) ==
    [tasks[t] EXCEPT !.pc = "loop", !.pies_v = Tail(@), !.known = FALSE]

\* One loop iteration up to its await: lock().await gets the guard,
\* entry(pie.id).or_insert(pie.clone()), the check of created_at and name
\* of the entry.  Either get_pie_details is sent, the guard staying alive
\* across the await, or result is written and the iteration ends.
LockAndEntry(t) ==
    /\ tasks[t].pc = "loop"
    /\ tasks[t].pies_v # <<>>
    /\ lock = Free
    /\ LET pie == CurPie(t)
           m   == OrInsert(pies, Key(pie), pie)
       IN IF FetchNeeded(m, pie)
          THEN /\ pies' = m
               /\ lock' = ByTask(t)
               /\ tasks' = SetTask(t, [tasks[t] EXCEPT !.pc = "meta",
                                          !.known = Key(pie) \in DOMAIN pies])
          ELSE /\ pies' = WriteResult(m, pie)
               /\ lock' = Free
               /\ tasks' = SetTask(t, NextPie(t))
    /\ hist' = Record(pies')
    /\ UNCHANGED <<cycles, reader, pies_data, saver, disk, main, calls>>

\* get_pie_details has answered ans, Ok((create_date, name)) or Err: the
\* unset fields of the entry are set from an Ok answer, result is written,
\* the guard is dropped at the end of the loop body
MetaAnswered(t, ans) ==
    /\ tasks[t].pc = "meta"
    /\ LET pie == CurPie(t)
           m   == [pies EXCEPT ![Key(pie)] = SetEnrichment(@, ans)]
       IN pies' = WriteResult(m, pie)
    /\ lock' = Free
    /\ tasks' = SetTask(t, NextPie(t))
    /\ hist' = Record(pies')
    /\ UNCHANGED <<cycles, reader, pies_data, saver, disk, main, calls>>

MetaReturn(t) ==
    \E resp \in MetaResponses : MetaAnswered(t, get_pie_details(resp))

\* mutant: the map is copied without the guard
ReaderSnapshot_unlocked ==
    /\ reader = "idle"
    /\ pies_data' = [got |-> TRUE, recs |-> Values(pies)]
    /\ reader' = "empty"
    /\ UNCHANGED <<pies, lock, tasks, cycles, saver, disk, hist, main, calls>>

\* ------------------------------------- PieTopApp::update, the snapshot
\* if let Ok(pies_guard) = self.pies.try_lock() {
\*     pies_guard.values().cloned().collect() } else { Vec::new() }
\* The copy is taken under the guard; without the guard pies_data is empty.
ReaderSnapshot ==
    /\ reader = "idle"
    /\ IF lock = Free
       THEN /\ lock' = ByReader
            /\ pies_data' = [got |-> TRUE, recs |-> Values(pies)]
            /\ reader' = "copied"
       ELSE /\ pies_data' = [got |-> TRUE, recs |-> {}]
            /\ reader' = "empty"
            /\ UNCHANGED lock
    /\ UNCHANGED <<pies, tasks, cycles, saver, disk, hist, main, calls>>

\* mutant: the guard outlives update
ReaderRender_keep ==
    /\ reader \in {"copied", "empty"}
    /\ reader' = "idle"
    /\ pies_data' = NoSnapshot
    /\ UNCHANGED <<pies, lock, tasks, cycles, saver, disk, hist, main, calls>>

\* the guard (if any) is dropped, the frame is drawn from pies_data and
\* update returns: pies_data is a local of update
ReaderRender ==
    /\ reader \in {"copied", "empty"}
    /\ lock' = IF reader = "copied" THEN Free ELSE lock
    /\ reader' = "idle"
    /\ pies_data' = NoSnapshot
    /\ UNCHANGED <<pies, tasks, cycles, saver, disk, hist, main, calls>>

\* --------------------------------------------------- main, saver thread
\* thread::sleep(5 s) is over
SaverWake ==
    /\ saver = "sleep"
    /\ saver' = "tick"
    /\ UNCHANGED <<pies, lock, tasks, cycles, reader, pies_data, disk, hist, main, calls>>

\* mutant: the saver waits for the guard (blocking_lock)
SaverTryLock_blocking ==
    /\ saver = "tick"
    /\ lock = Free
    /\ lock' = BySaver
    /\ saver' = "save"
    /\ UNCHANGED <<pies, tasks, cycles, reader, pies_data, disk, hist, main, calls>>

\* pies_for_save.try_lock(): the guard, or back to sleep
SaverTryLock ==
    /\ saver = "tick"
    /\ IF lock = Free
       THEN /\ lock' = BySaver
            /\ saver' = "save"
       ELSE /\ saver' = "sleep"
            /\ UNCHANGED lock
    /\ UNCHANGED <<pies, tasks, cycles, reader, pies_data, disk, hist, main, calls>>

\* save_map(map, path): the text is written (ok), or File::create fails
\* and the file is left as it was
save_map(map, file, ok) == IF ok THEN to_string_pretty(map) ELSE file

\* save_map(&*pies_map, pies_path) returns Ok or an io error, which is
\* printed; the guard is dropped and the thread sleeps again
SaverSaved(ok) ==
    /\ saver = "save"
    /\ disk' = save_map(pies, disk, ok)
    /\ saver' = "sleep"
    /\ lock' = Free
    /\ UNCHANGED <<pies, tasks, cycles, reader, pies_data, hist, main, calls>>

SaverSave == \E ok \in BOOLEAN : SaverSaved(ok)

\* ------------------------------------------------ main, at startup
\* the pie objects a JSON file can hold: progress and status are null or
\* hold the one value of the live members, created_at and name are null
\* or present
JsonPies ==
    { [id |-> Num(i), cash |-> Num(v), dividendDetails |-> Num(v),
       result |-> Num(v), progress |-> OptNum(pr * v), status |-> OptStr(pr * v),
       created_at |-> OptNum(ca), name |-> OptStr(nm)] :
        i \in Ids, v \in Vals, pr \in {0, 1}, ca \in {None, 1}, nm \in {None, 1} }

\* the JSON objects whose member "k" is a pie object of id k
JsonStores ==
    UNION { { ms \in [{ Str(k) : k \in D } -> JsonPies] :
                \A ks \in DOMAIN ms : ms[ks].id.v = ks.v } :
            D \in SUBSET Ids }

\* a pie object written by an older build, without the enrichment members
Older(o) == [o EXCEPT !.created_at = Absent, !.name = Absent]

\* pies.json as the process can find it: no file, an unreadable file, a
\* file cut short, a JSON object of pie objects, one without the Option
\* members, and one whose pie object has no number in cash
Files ==
    {NoFile, Unreadable, NotJson}
    \cup { JsonFile(ms) : ms \in JsonStores }
    \cup { JsonFile([ks \in {Str(1)} |-> Older(o)]) :
               o \in { q \in JsonPies : q.id.v = 1 } }
    \cup { JsonFile([ks \in {Str(1)} |-> [o EXCEPT !.cash = c]]) :
               o \in { q \in JsonPies : q.id.v = 1 /\ q.name = Null },
               c \in {Null, Absent} }

\* the process is launched: nothing runs yet, the map is HashMap::new()
Launched ==
    /\ pies = EmptyMap
    /\ lock = Free
    /\ tasks = [t \in Tasks |-> IdleTask]
    /\ cycles = 0
    /\ reader = "idle"
    /\ pies_data = NoSnapshot
    /\ saver = "unborn"
    /\ hist = NoHist
    /\ main = "load"
    /\ NoCalls

\* main, lines 619-650: if let Ok(loaded_pies) = load_map(pies_path) the
\* map is replaced; the saver thread is spawned; the GUI loop starts.  A
\* panic in load_map unwinds main: the process ends.
MainStart ==
    /\ main = "load"
    /\ LET r == load_map(disk)
       IN IF r.st = "panic"
          THEN /\ main' = "panic"
               /\ UNCHANGED <<pies, saver>>
          ELSE /\ main' = "run"
               /\ pies' = IF r.st = "Ok" THEN r.map ELSE pies
               /\ saver' = "sleep"
    /\ UNCHANGED <<lock, tasks, cycles, reader, pies_data, disk, hist, calls>>

\* the window is closed while the saver sleeps and the program is started
\* again: run_native and main return, a new process finds the file
Relaunch ==
    /\ main = "run"
    /\ saver = "sleep"
    /\ main' = "load"
    /\ pies' = EmptyMap
    /\ saver' = "unborn"
    /\ UNCHANGED <<lock, tasks, cycles, reader, pies_data, disk, hist, calls>>

\* ------------------------------------------------ calculate_annual_rate
MaxTime == 2      \* timestamps are at most MaxTime

\* the f64 arguments (negative, zero, positive) and the clock
Amounts == -1..MaxVal
Dates   == -1..MaxTime
Clock   == 0..MaxTime

\* mutant: the clock is compared with < in place of <=
calculate_annual_rate_strict(initial_value, final_value, create_date, now) ==
    IF initial_value <= 0 \/ create_date <= 0
    THEN RateZero
    ELSE IF now < create_date
         THEN RateZero
         ELSE Powf(final_value, initial_value, now - create_date)

\* calculate_annual_rate; now is what Utc::now().timestamp() returns
calculate_annual_rate(initial_value, final_value, create_date, now) ==
    IF initial_value <= 0 \/ create_date <= 0
    THEN RateZero
    ELSE IF now <= create_date
         THEN RateZero
         ELSE Powf(final_value, initial_value, now - create_date)

\* the calls: any arguments, the clock not yet read
RateCalls ==
    { [NoRate EXCEPT !.pc = "call", !.initial_value = i, !.final_value = f,
                     !.create_date = c] :
        i \in Amounts, f \in Amounts, c \in Dates }

\* the call reads the clock and returns
RateReturn ==
    /\ rate.pc = "call"
    /\ \E now \in Clock :
          rate' = [rate EXCEPT !.pc = "ret", !.now = now,
                      !.ret = calculate_annual_rate(rate.initial_value,
                                  rate.final_value, rate.create_date, now)]
    /\ UNCHANGED <<pies, lock, tasks, cycles, reader, pies_data, saver, disk,
                   hist, main, totals, parsed, total_value_history>>

\* ------------------------------------- PieTopApp::update, the totals
\* struct ResultDetails, the two members the totals are made of
ResultDetails(a, b) == [price_avg_invested_value |-> a, price_avg_value |-> b]

\* the maps the totals are run on: any invested and current value per pie
Portfolios ==
    UNION { [D -> { ResultDetails(a, b) : a \in Amounts, b \in Amounts }] :
            D \in SUBSET Ids }

PortfolioMap(f) ==
    [k \in DOMAIN f |-> Pie(k, 1, 1, f[k], None, None, None, None)]

\* values().cloned().collect::<Vec<_>>(): the records in some order
AsVec(S) ==
    CHOOSE v \in [1..Cardinality(S) -> S] : \A r \in S : \E j \in DOMAIN v : v[j] = r

\* iter().sum()
RECURSIVE Sum(_)
Sum(v) == IF v = <<>> THEN 0 ELSE Head(v) + Sum(Tail(v))

\* mutant: the percentage is taken of total_now
Totals_ofNow(v) ==
    LET total_initial == Sum([j \in DOMAIN v |-> v[j].result.price_avg_invested_value])
        total_now     == Sum([j \in DOMAIN v |-> v[j].result.price_avg_value])
    IN [pc |-> "shown", total_initial |-> total_initial, total_now |-> total_now,
        total_result_percent |->
            IF total_now # 0
            THEN Percent(total_now - total_initial, total_now)
            ELSE Percent(0, 1)]

\* lines 248-255: total_initial, total_now, total_result_percent
Totals(v) ==
    LET total_initial == Sum([j \in DOMAIN v |-> v[j].result.price_avg_invested_value])
        total_now     == Sum([j \in DOMAIN v |-> v[j].result.price_avg_value])
    IN [pc |-> "shown", total_initial |-> total_initial, total_now |-> total_now,
        total_result_percent |->
            IF total_initial # 0
            THEN Percent(total_now - total_initial, total_initial)
            ELSE Percent(0, 1)]

\* the snapshots the totals are run on: the records of any portfolio
Snapshots ==
    { [got |-> TRUE, recs |-> Values(PortfolioMap(f))] : f \in Portfolios }

\* lines 248-255 are run on pies_data
TotalsReturn ==
    /\ totals.pc = "none"
    /\ totals' = Totals(AsVec(pies_data.recs))
    /\ UNCHANGED <<pies, lock, tasks, cycles, reader, pies_data, saver, disk,
                   hist, main, rate, parsed, total_value_history>>

\* ----------------------------- PieTopApp::update, the value history
MaxStamp  == 4      \* the clock is read in half days, 0..MaxStamp
MaxPoints == 3      \* points pushed while the history is shorter

\* 86400.0: the seconds of the day the history keeps
Day == 86400

\* Utc::now().timestamp(): the wall clock, which the system may set
\* forward or back between two readings
Stamps == { (k * Day) \div 2 : k \in 0..MaxStamp }

TotalValuePoint(ts, v) == [timestamp |-> ts, total_value |-> v]

\* while let Some(front) = front() { if front.timestamp < one_day_ago
\* { pop_front() } else { break } }
RECURSIVE PopOld(_, _)
PopOld(h, one_day_ago) ==
    IF h # <<>> /\ Head(h).timestamp < one_day_ago
    THEN PopOld(Tail(h), one_day_ago)
    ELSE h

\* lines 145-163, run when the first snapshot of update is not empty:
\* total_now, push_back of the point, removal of the old points
UpdateHistory ==
    /\ pies_data.recs # {}
    /\ Len(total_value_history) < MaxPoints
    /\ \E current_time \in Stamps :
          LET v         == AsVec(pies_data.recs)
              total_now == Sum([j \in DOMAIN v |-> v[j].result.price_avg_value])
              pushed    == Append(total_value_history,
                                  TotalValuePoint(current_time, total_now))
          IN total_value_history' = PopOld(pushed, current_time - Day)
    /\ UNCHANGED <<pies, lock, tasks, cycles, reader, pies_data, saver, disk,
                   hist, main, rate, totals, parsed>>

\* ------------------------------------- fetch_pies, the response shapes
\* the text of a list response: a JSON array of pie objects, or a JSON
\* object whose member "id" is the pie object of that id
ArrayBody(l) == [shape |-> "array", items |-> l, members |-> NoMembers]
ObjectBody(l) ==
    [shape |-> "object", items |-> <<>>,
     members |-> [ks \in { Str(l[j].id) : j \in DOMAIN l } |->
                     l[CHOOSE j \in DOMAIN l : l[j].id = ks.v]]]

\* mutant: only one value of the object is taken
IntoValues_first(ms) ==
    { v \in UNION { [1..n -> { ms[ks] : ks \in DOMAIN ms }] : n \in 0..1 } :
        /\ DOMAIN ms # {} => v # <<>>
        /\ \A a, b \in DOMAIN v : a # b => v[a] # v[b] }

\* pies.into_values().collect(): the values of the HashMap in any order
IntoValues(ms) ==
    { v \in [1..Cardinality(DOMAIN ms) -> { ms[ks] : ks \in DOMAIN ms }] :
        \A a, b \in DOMAIN v : a # b => v[a] # v[b] }

\* lines 690-714: from_str::<Vec<Pie>> takes an array as it is; an object
\* fails there and is taken by PiesResponse, whose flattened HashMap
\* gives its values; the lists pies_v can be
ParsedLists(b) ==
    IF b.shape = "array" THEN {b.items} ELSE IntoValues(b.members)

\* the loop of lines 716-732 run alone over pies_v, get_pie_details
\* answering meta[id]
RECURSIVE Reconcile(_, _, _)
Reconcile(m, pies_v, meta) ==
    IF pies_v = <<>> THEN m
    ELSE LET pie == Head(pies_v)
             e   == OrInsert(m, Key(pie), pie)
             f   == IF FetchNeeded(e, pie)
                    THEN [e EXCEPT ![Key(pie)] = SetEnrichment(@, meta[Key(pie)])]
                    ELSE e
         IN Reconcile(WriteResult(f, pie), Tail(pies_v), meta)

\* a map, a list of pies and the answers of get_pie_details
ShapeCases ==
    { [NoParsed EXCEPT !.pc = "run", !.store = m, !.list = l, !.meta = a] :
        m \in RestoredMaps, l \in PieLists, a \in [Ids -> MetaAnswers] }

\* the list arrives as an array and is reconciled into the map
ReconcileArray ==
    /\ parsed.pc = "run" /\ ~parsed.array_done
    /\ \E v \in ParsedLists(ArrayBody(parsed.list)) :
          parsed' = [parsed EXCEPT !.array_done = TRUE,
                        !.array = Reconcile(parsed.store, v, parsed.meta)]
    /\ UNCHANGED <<pies, lock, tasks, cycles, reader, pies_data, saver, disk,
                   hist, main, rate, totals, total_value_history>>

\* the same pies arrive as an id-keyed object and are reconciled into
\* the same map
ReconcileObject ==
    /\ parsed.pc = "run" /\ ~parsed.object_done
    /\ \E v \in ParsedLists(ObjectBody(parsed.list)) :
          parsed' = [parsed EXCEPT !.object_done = TRUE, !.values = v,
                        !.object = Reconcile(parsed.store, v, parsed.meta)]
    /\ UNCHANGED <<pies, lock, tasks, cycles, reader, pies_data, saver, disk,
                   hist, main, rate, totals, total_value_history>>

Next ==
    \/ \E t \in Tasks : Spawn(t)
    \/ \E t \in Tasks : ListReturn(t)
    \/ \E t \in Tasks : CheckStatus(t)
    \/ \E t \in Tasks : TextReturn(t)
    \/ \E t \in Tasks : ParseBody(t)
    \/ \E t \in Tasks : LoopEnd(t)
    \/ \E t \in Tasks : LockAndEntry(t)
    \/ \E t \in Tasks : MetaReturn(t)
    \/ ReaderSnapshot
    \/ ReaderRender
    \/ SaverWake
    \/ SaverTryLock
    \/ SaverSave

Spec == Init /\ [][Next]_vars

\* the same program started on a restored map, with the history of the map
\* recorded (started on the empty map, the empty content is in the history
\* from the first state on)
InitHist == Startup(TRUE) /\ pies # EmptyMap
SpecHist == InitHist /\ [][Next]_vars

\* startup and persistence: the process is launched on any file, the
\* saver thread writes the map, the program is closed and started again
InitBoot == Launched /\ disk \in Files

NextBoot ==
    \/ MainStart
    \/ SaverWake
    \/ SaverTryLock
    \/ SaverSave
    \/ Relaunch

SpecBoot == InitBoot /\ [][NextBoot]_vars

\* the program at rest: an empty map, no task, nobody in a critical section
AtRest ==
    /\ lock = Free
    /\ tasks = [t \in Tasks |-> IdleTask]
    /\ cycles = 0
    /\ reader = "idle"
    /\ saver = "sleep"
    /\ hist = NoHist
    /\ main = "run"

\* calculate_annual_rate run on its own, on any arguments
InitRate ==
    /\ AtRest /\ pies = EmptyMap /\ disk = NoFile
    /\ pies_data = NoSnapshot
    /\ rate \in RateCalls /\ totals = NoTotals /\ parsed = NoParsed
    /\ total_value_history = <<>>

NextRate == RateReturn

SpecRate == InitRate /\ [][NextRate]_vars

\* the totals of update run on their own, on any pies_data
InitTotals ==
    /\ AtRest /\ pies = EmptyMap /\ disk = NoFile
    /\ pies_data \in Snapshots
    /\ rate = NoRate /\ totals = NoTotals /\ parsed = NoParsed
    /\ total_value_history = <<>>

NextTotals == TotalsReturn

SpecTotals == InitTotals /\ [][NextTotals]_vars

\* one list reconciled from its two shapes into the same map
InitShape ==
    /\ AtRest /\ pies = EmptyMap /\ disk = NoFile
    /\ pies_data = NoSnapshot
    /\ rate = NoRate /\ totals = NoTotals /\ parsed \in ShapeCases
    /\ total_value_history = <<>>

NextShape ==
    \/ ReconcileArray
    \/ ReconcileObject

SpecShape == InitShape /\ [][NextShape]_vars

\* the value history of update run on its own, on a snapshot of one pie
InitHistory ==
    /\ AtRest /\ pies = EmptyMap /\ disk = NoFile
    /\ pies_data \in { s \in Snapshots : Cardinality(s.recs) = 1 }
    /\ rate = NoRate /\ totals = NoTotals /\ parsed = NoParsed
    /\ total_value_history = <<>>

NextHistory == UpdateHistory

SpecHistory == InitHistory /\ [][NextHistory]_vars

\* the fetch_pies tasks on their own, the GUI thread spawning them and
\* taking no snapshot and the saver thread asleep; the history keeps the
\* list responses in the order of their reception
InitOrder ==
    /\ pies \in RestoredMaps
    /\ lock = Free
    /\ tasks = [t \in Tasks |-> IdleTask]
    /\ cycles = 0
    /\ reader = "idle"
    /\ pies_data = NoSnapshot
    /\ saver = "sleep"
    /\ disk = to_string_pretty(pies)
    /\ hist = [NoHist EXCEPT !.order = TRUE]
    /\ main = "run"
    /\ NoCalls

NextOrder ==
    \E t \in Tasks :
        \/ Spawn(t)
        \/ ListReturn(t)
        \/ CheckStatus(t)
        \/ TextReturn(t)
        \/ ParseBody(t)
        \/ LoopEnd(t)
        \/ LockAndEntry(t)
        \/ MetaReturn(t)

SpecOrder == InitOrder /\ [][NextOrder]_vars

\* ------------------------------------------- the program running on
\* The program left running: update spawns a task at every interval, also
\* after MaxCycles of them, the threads and the tasks are scheduled
\* fairly and every remote call returns.  The lists hold pies of one
\* pie of one value.  From some moment on (Recover) the remote service may answer
\* for one pie without fail: every list call returns 200 with a list
\* that holds the pie, and get_pie_details for the pie returns Ok.
LiveLists ==
    { l \in PieLists :
        Len(l) <= 1 /\ \A j \in DOMAIN l : l[j] = Pie(j, 1, 1, 1, 1, 1, None, None) }

LiveResponses == { r \in MetaResponses : r.creationDate.v \in {0, 1} }

GoodList(b, k) ==
    b.kind = "pies" /\ ~b.error /\ \E j \in DOMAIN b.pies : b.pies[j].id = k

\* the interval elapses after MaxCycles spawns: one more task, not counted
SpawnOn(t) ==
    /\ cycles = MaxCycles
    /\ tasks[t].pc \in {"idle", "done"}
    /\ \A u \in 1..(t - 1) : tasks[u].pc \notin {"idle", "done"}
    /\ tasks' = SetTask(t, [IdleTask EXCEPT !.pc = "send"])
    /\ hist' = Overlap
    /\ UNCHANGED <<pies, lock, cycles, reader, pies_data, saver, disk, main, calls>>

\* the remote service recovers for pie k, a pie it lists
Recover(k) ==
    /\ hist.good = None
    /\ \E l \in LiveLists : \E j \in DOMAIN l : l[j].id = k
    /\ hist' = [hist EXCEPT !.good = k]
    /\ UNCHANGED <<pies, lock, tasks, cycles, reader, pies_data, saver, disk,
                   main, calls>>

LiveListReturn(t) ==
    /\ ListReturn(t)
    /\ hist.good # None => tasks'[t].pc = "status" /\ tasks'[t].status = 200

LiveTextReturn(t) ==
    /\ TextReturn(t)
    /\ tasks'[t].pc = "body" => tasks'[t].body.pies \in LiveLists
    /\ hist.good # None /\ tasks[t].status = 200
          => tasks'[t].pc = "body" /\ GoodList(tasks'[t].body, hist.good)

LiveMetaReturn(t) ==
    \E resp \in LiveResponses :
        /\ MetaAnswered(t, get_pie_details(resp))
        /\ hist.good = CurPie(t).id => get_pie_details(resp).st = "Ok"

\* the steps of task t but the wait for the lock
TaskStep(t) ==
    \/ LiveListReturn(t)
    \/ CheckStatus(t)
    \/ LiveTextReturn(t)
    \/ ParseBody(t)
    \/ LoopEnd(t)
    \/ LiveMetaReturn(t)

SpawnStep == \E t \in Tasks : Spawn(t) \/ SpawnOn(t)

NextLive ==
    \/ \E t \in Tasks : Spawn(t)
    \/ \E t \in Tasks : SpawnOn(t)
    \/ \E k \in Ids : Recover(k)
    \/ \E t \in Tasks : LiveListReturn(t)
    \/ \E t \in Tasks : CheckStatus(t)
    \/ \E t \in Tasks : LiveTextReturn(t)
    \/ \E t \in Tasks : ParseBody(t)
    \/ \E t \in Tasks : LoopEnd(t)
    \/ \E t \in Tasks : LockAndEntry(t)
    \/ \E t \in Tasks : LiveMetaReturn(t)
    \/ ReaderSnapshot
    \/ ReaderRender
    \/ SaverWake
    \/ SaverTryLock
    \/ SaverSave

\* update is called again and again (request_repaint_after) and spawns at
\* every interval; a tokio task that can run is run and its remote call
\* returns; lock().await of the tokio Mutex is served first come, first
\* served, so a task that waits gets the guard; a thread that holds the
\* guard runs on to the end of its block
FairLive ==
    /\ WF_vars(SpawnStep)
    /\ \A t \in Tasks : WF_vars(TaskStep(t)) /\ SF_vars(LockAndEntry(t))
    /\ WF_vars(ReaderRender)
    /\ WF_vars(SaverSave)

InitLive == Init /\ pies = EmptyMap

SpecLive == InitLive /\ [][NextLive]_vars /\ FairLive

\* ------------------------------------------------------------- claims
\* task t takes the step
Moved(t) == tasks'[t] # tasks[t]

\* task t is in a loop iteration for the pie at the head of pies_v
AtPie(t) == tasks[t].pc \in {"loop", "meta"} /\ tasks[t].pies_v # <<>>

\* the step ends task t's iteration for that pie (the per-pie merge)
MergeDone(t) == AtPie(t) /\ tasks'[t].pc = "loop" /\ Moved(t)

\* the ids load_map can have restored
RestoredIds == UNION { DOMAIN m : m \in RestoredMaps }

\* C1: once a stored record's name or created_at is present, the record
\* stays in the map and that field keeps its value in every later state,
\* whatever later list or metadata responses contain.
EnrichmentKept ==
    [][\A k \in DOMAIN pies :
          /\ k \in DOMAIN pies'
          /\ pies[k].name # None => pies'[k].name = pies[k].name
          /\ pies[k].created_at # None
                => pies'[k].created_at = pies[k].created_at]_vars

\* C1 witness: a record whose name was present (restored from disk) went
\* through a metadata answer carrying another name: list and metadata
\* responses carry equal values in both fields, so the two fields differ
\* only when the answer's name was not taken.
EnrichmentKeptWitness ==
    \E k \in DOMAIN pies :
        /\ pies[k].name # None
        /\ pies[k].created_at # None
        /\ pies[k].name # pies[k].created_at

LiveEq(p, raw) ==
    /\ p.cash = raw.cash
    /\ p.dividend_details = raw.dividend_details
    /\ p.result = raw.result
    /\ p.progress = raw.progress
    /\ p.status = raw.status

\* the id of the pie of t's iteration was in the map before the iteration
WasKnown(t) ==
    IF tasks[t].pc = "meta" THEN tasks[t].known ELSE CurPie(t).id \in DOMAIN pies

\* C2: when the merge of a returned pie whose id was already in the map
\* is complete, the live fields of the stored record (cash, dividend,
\* result, progress, status) equal those of the returned pie.
LiveFieldsReplaced ==
    [][\A t \in Tasks :
          MergeDone(t) /\ WasKnown(t)
             => LiveEq(pies'[CurPie(t).id], CurPie(t))]_vars

\* C3: the record inserted for an id that was not in the map has name and
\* created_at unset, whatever the returned pie carries, and a record that
\* needs enrichment stops needing it only when a metadata fetch for it
\* returns.
InsertedUnenriched ==
    [][/\ \A k \in DOMAIN pies' \ DOMAIN pies :
             /\ pies'[k].name = None
             /\ pies'[k].created_at = None
             /\ NeedsEnrichment(pies'[k])
       /\ \A k \in DOMAIN pies \cap DOMAIN pies' :
             NeedsEnrichment(pies[k]) /\ ~NeedsEnrichment(pies'[k])
                => \E t \in Tasks : /\ tasks[t].pc = "meta"
                                    /\ CurPie(t).id = k
                                    /\ Moved(t)]_vars

\* C4: a task with a remote call in flight (the list request, the body of
\* its response, or get_pie_details) does not hold the guard of the Mutex.
NoLockAcrossRemoteCall ==
    \A t \in Tasks :
        tasks[t].pc \in {"send", "text", "meta"} => lock # ByTask(t)

\* C5: every snapshot the reader obtains is a content the map has had at
\* some instant since startup.
SnapshotIsStoreContent ==
    pies_data.got => pies_data.recs \in hist.seen

\* C6: every record of a snapshot is the stored record of its pie, and no
\* task is in the middle of that pie's merge (entry made, enrichment and
\* result not yet written).
SnapshotRecordsWhole ==
    \A r \in pies_data.recs :
        /\ r.id \in DOMAIN pies
        /\ r = pies[r.id]
        /\ \A t \in Tasks : ~(tasks[t].pc = "meta" /\ CurPie(t).id = r.id)

\* C6 witness: a snapshot taken while a refresh cycle is in progress: the
\* first cycle has inserted a pie (one that was not restored at startup)
\* and has another pie to merge.
SnapshotRecordsWholeWitness ==
    /\ cycles = 1
    /\ \E r \in pies_data.recs : r.id \notin RestoredIds
    /\ \E t \in Tasks : tasks[t].pc = "loop" /\ tasks[t].pies_v # <<>>

\* C7: a cycle whose list call answers 429 returns Ok(()) at once, and no
\* step of the cycle changes the map.
RateLimitedIsSilent ==
    [][\A t \in Tasks :
          /\ Moved(t) /\ tasks[t].pc \in {"send", "status"} => pies' = pies
          /\ Moved(t) /\ tasks[t].pc = "status" /\ tasks[t].status = 429
                => tasks'[t].pc = "done" /\ tasks'[t].ret = "Ok"]_vars

\* C7 witness: the list call of a cycle has answered 429 and the map holds
\* records.
RateLimitedIsSilentWitness ==
    \E t \in Tasks :
        /\ tasks[t].pc = "done" /\ tasks[t].status = 429
        /\ pies # EmptyMap

\* the step of task t is a failure of its list call
ListCallFails(t) ==
    \/ tasks[t].pc = "send" /\ tasks'[t].pc # "status"
    \/ tasks[t].pc = "text" /\ tasks[t].status # 200
    \/ tasks[t].pc = "text" /\ tasks'[t].pc # "body"
    \/ tasks[t].pc = "body" /\ tasks[t].body.kind # "pies"

\* C8: a cycle whose list call fails (transport error, a non-2xx status
\* other than 429, a business-error payload, a body in none of the
\* accepted shapes) returns an error, and no step of it changes the map.
ListFailureNoChange ==
    [][\A t \in Tasks :
          /\ Moved(t) /\ tasks[t].pc \in {"send", "status", "text", "body"}
                => pies' = pies
          /\ Moved(t) /\ ListCallFails(t)
                => tasks'[t].pc = "done" /\ tasks'[t].ret = "Err"]_vars

\* C8 witness: a cycle has ended on a list response that holds no pies,
\* with records in the map.
ListFailureNoChangeWitness ==
    \E t \in Tasks :
        /\ tasks[t].pc = "done" /\ tasks[t].ret = "Err" /\ tasks[t].status = 200
        /\ pies # EmptyMap

\* C9: a key of the map stays in it, and its record changes only in a loop
\* iteration for a listed pie of that id.
NoEviction ==
    [][\A k \in DOMAIN pies :
          /\ k \in DOMAIN pies'
          /\ pies'[k] # pies[k]
                => \E t \in Tasks : AtPie(t) /\ CurPie(t).id = k /\ Moved(t)]_vars

\* C9 witness: a pie inserted in this run is in the map and the list
\* response of a cycle does not hold its id.
NoEvictionWitness ==
    \E t \in Tasks, k \in DOMAIN pies \ RestoredIds :
        /\ tasks[t].pc = "body" /\ tasks[t].body.kind = "pies"
        /\ \A j \in DOMAIN tasks[t].body.pies : tasks[t].body.pies[j].id # k

\* C10: while get_pie_details is in flight for a pie, the stored record of
\* that id has name or created_at unset.
MetaOnlyWhenNeeded ==
    \A t \in Tasks :
        tasks[t].pc = "meta"
           => /\ CurPie(t).id \in DOMAIN pies
              /\ NeedsEnrichment(pies[CurPie(t).id])

\* C10 witness: two refresh tasks run, one has get_pie_details in flight,
\* the other has listed a pie whose stored record has both fields.
MetaOnlyWhenNeededWitness ==
    \E t, u \in Tasks :
        /\ tasks[t].pc = "meta"
        /\ tasks[u].pc = "loop" /\ tasks[u].pies_v # <<>>
        /\ CurPie(u).id \in DOMAIN pies
        /\ ~NeedsEnrichment(pies[CurPie(u).id])

\* the step of task t is a failed metadata fetch for the pie of its iteration
MetaFails(t) == MetaAnswered(t, MetaErr)

\* task t enters an iteration for a pie whose stored record has a field unset
ListsUnenriched(t) ==
    /\ tasks[t].pc = "loop" /\ tasks[t].pies_v # <<>> /\ Moved(t)
    /\ CurPie(t).id \in DOMAIN pies
    /\ NeedsEnrichment(pies[CurPie(t).id])

\* C11: when get_pie_details fails for a pie, name and created_at of the
\* record keep their values (an unset field stays unset), the live fields
\* of the record are those of the listed pie, and the task goes on with
\* the rest of the list; and every iteration for a listed pie whose record
\* has a field unset sends get_pie_details again.
MetaFailureTolerated ==
    [][\A t \in Tasks :
          /\ MetaFails(t)
                => /\ pies'[CurPie(t).id].name = pies[CurPie(t).id].name
                   /\ pies'[CurPie(t).id].created_at = pies[CurPie(t).id].created_at
                   /\ LiveEq(pies'[CurPie(t).id], CurPie(t))
                   /\ tasks'[t].pc = "loop"
                   /\ tasks'[t].pies_v = Tail(tasks[t].pies_v)
          /\ ListsUnenriched(t) => tasks'[t].pc = "meta"]_vars

\* the refresh tasks that have started and not returned
Running == { t \in Tasks : tasks[t].pc \notin {"idle", "done"} }

\* C12: at most one fetch_pies task is in progress at any time.
SingleWriter == Cardinality(Running) <= 1

\* C13: a tick of the saver thread never waits for the Mutex: try_lock
\* returns at once; with the guard the thread goes on to save_map, which
\* leaves in the file the whole map or, on an io error, what it held;
\* without the guard the thread sleeps again and the file is not touched.
SaveNeverWaits ==
    [][/\ saver = "tick" => ENABLED SaverTryLock
       /\ saver = "tick" /\ saver' # "tick"
             => /\ disk' = disk
                /\ IF lock = Free
                   THEN saver' = "save" /\ lock' = BySaver
                   ELSE saver' = "sleep" /\ lock' = lock
       /\ saver = "save" /\ saver' # "save"
             => /\ disk' \in {to_string_pretty(pies), disk}
                /\ lock' = Free]_vars

\* C13 witness: a tick was skipped: the saver sleeps again while a task
\* holds the guard across get_pie_details, and the file does not hold the
\* record that task has inserted.
SaveNeverWaitsWitness ==
    /\ saver = "sleep"
    /\ \E t \in Tasks :
          /\ lock = ByTask(t) /\ tasks[t].pc = "meta"
          /\ Str(CurPie(t).id) \notin DOMAIN disk.members

\* the file is unusable: load_map has no map to return
BadFile == disk.kind # "json" \/ ~from_str_ok(disk)

\* C14: started on a missing or corrupt pies.json, main goes on to the GUI
\* loop with an empty map.
BadFileGivesEmptyStore ==
    [][main = "load" /\ main' # "load" /\ BadFile
          => main' = "run" /\ pies' = EmptyMap]_vars

\* C15: the file save_map has written loads as the map that was saved: the
\* same keys and equal records, name and created_at included.
SaveLoadRoundTrip ==
    [][SaverSaved(TRUE) => load_map(disk') = [st |-> "Ok", map |-> pies]]_vars

\* C15 witness: the saver is about to write a map restored at startup that
\* holds a record with a name and no created_at and one with neither.
SaveLoadRoundTripWitness ==
    /\ saver = "save"
    /\ \E a, b \in DOMAIN pies :
          /\ pies[a].name # None /\ pies[a].created_at = None
          /\ pies[b].name = None /\ pies[b].progress = None

\* a fetch_pies task has returned an error or has been rate limited
CycleFailed(t) ==
    tasks[t].pc = "done" /\ (tasks[t].ret = "Err" \/ tasks[t].status = 429)

\* C16: with a task that has returned an error or Ok after a 429, update
\* can still spawn the next fetch_pies (for the MaxCycles spawns of a
\* run); a save_map that fails sends the saver back to sleep, and a
\* sleeping saver can always wake for its next tick.
RefreshNeverStops ==
    [][/\ (\E t \in Tasks : CycleFailed(t)) /\ cycles < MaxCycles
             => ENABLED (\E u \in Tasks : Spawn(u))
       /\ SaverSaved(FALSE) => saver' = "sleep"
       /\ saver = "sleep" => ENABLED SaverWake]_vars

\* C16 witness: the first cycle has returned an error, a save has left
\* the file behind the map, and both the next spawn and the next tick can
\* be taken.
RefreshNeverStopsWitness ==
    /\ cycles = 1
    /\ tasks[1].pc = "done" /\ tasks[1].ret = "Err"
    /\ saver = "sleep" /\ lock = Free
    /\ ENABLED Spawn(1)
    /\ ENABLED SaverWake

\* the returned f64 is 0: the early 0.0, or a power of the ratio 1
IsZero(r) == r.early \/ r.final_value = r.initial_value

\* C17: calculate_annual_rate returns 0 when initial_value <= 0, or
\* create_date <= 0, or the clock is not past create_date, whatever the
\* other arguments are.
AnnualRateZeroCases ==
    rate.pc = "ret"
       /\ (rate.initial_value <= 0 \/ rate.create_date <= 0
              \/ rate.now <= rate.create_date)
       => IsZero(rate.ret)

\* C17 witness: a call with a positive initial_value, another final_value
\* and a positive create_date equal to the clock has returned.
AnnualRateZeroCasesWitness ==
    /\ rate.pc = "ret"
    /\ rate.initial_value > 0
    /\ rate.final_value # rate.initial_value
    /\ rate.create_date > 0
    /\ rate.now = rate.create_date

\* the sum of the values of a function over its domain
RECURSIVE SumOver(_)
SumOver(f) ==
    IF DOMAIN f = {} THEN 0
    ELSE LET x == CHOOSE x \in DOMAIN f : TRUE
         IN f[x] + SumOver([y \in DOMAIN f \ {x} |-> f[y]])

\* the totals the claim gives for a snapshot
ClaimedTotals(recs) ==
    LET invested == SumOver([r \in recs |-> r.result.price_avg_invested_value])
        current  == SumOver([r \in recs |-> r.result.price_avg_value])
    IN [pc |-> "shown", total_initial |-> invested, total_now |-> current,
        total_result_percent |->
            IF invested = 0 THEN Percent(0, 1)
            ELSE Percent(current - invested, invested)]

\* C18: the totals computed from a snapshot are the sum of the invested
\* values and the sum of the current values of its records, with the
\* return percent 0 for an invested sum of 0 and (current - invested) /
\* invested * 100 otherwise; an empty snapshot gives (0, 0, 0).
TotalsOfSnapshot ==
    totals.pc = "shown"
       => /\ totals = ClaimedTotals(pies_data.recs)
          /\ pies_data.recs = {}
                => /\ totals.total_initial = 0
                   /\ totals.total_now = 0
                   /\ totals.total_result_percent = Percent(0, 1)

\* C18 witness: the totals of a snapshot of two records with a gain: the
\* invested sum is not 0 and the current sum is larger.
TotalsOfSnapshotWitness ==
    /\ totals.pc = "shown"
    /\ Cardinality(pies_data.recs) = 2
    /\ totals.total_initial > 0
    /\ totals.total_now > totals.total_initial

\* C19: the map reconciled from the id-keyed object is the map reconciled
\* from the array of the same pie objects, starting from the same map and
\* with the same answers of get_pie_details.
ShapesAgree ==
    parsed.array_done /\ parsed.object_done => parsed.object = parsed.array

\* C19 witness: two pies, taken from the object in the other order than
\* the array lists them, have been reconciled into a map that held one of
\* them, and the map has changed.
ShapesAgreeWitness ==
    /\ parsed.array_done /\ parsed.object_done
    /\ Len(parsed.list) = 2
    /\ parsed.values # parsed.list
    /\ parsed.store # EmptyMap
    /\ parsed.array # parsed.store

\* C20: a task whose 200 response holds a business-error payload returns
\* Err from the check of the text: it has no pies_v, and the map is not
\* changed.
BusinessErrorRejected ==
    [][\A t \in Tasks :
          Moved(t) /\ tasks[t].pc = "body" /\ tasks[t].body.kind = "business"
             => /\ tasks'[t].pc = "done"
                /\ tasks'[t].ret = "Err"
                /\ tasks'[t].pies_v = <<>>
                /\ pies' = pies]_vars

\* C20 witness: a task has received a business-error payload with status
\* 200 while the map holds records and another task is merging its list.
BusinessErrorRejectedWitness ==
    \E t, u \in Tasks :
        /\ tasks[t].pc = "body" /\ tasks[t].body.kind = "business"
        /\ tasks[t].status = 200
        /\ tasks[u].pc = "loop" /\ tasks[u].pies_v # <<>>
        /\ pies # EmptyMap

\* C21: when a task sends get_pie_details, every pie of its list is in the
\* map: all the pies are upserted before the first metadata fetch.
ReconcileBeforeEnrich ==
    \A t \in Tasks :
        tasks[t].pc = "meta"
           => \A j \in DOMAIN tasks[t].pies_v :
                 tasks[t].pies_v[j].id \in DOMAIN pies

\* a task has a remote call in flight
CallPending == \E t \in Tasks : tasks[t].pc \in {"send", "text", "meta"}

\* C22: while a remote call of a task is pending and neither the GUI
\* thread nor the saver thread holds the guard, a snapshot attempt copies
\* the map and a tick of the saver goes on to save_map.
PendingCallStallsNobody ==
    [][CallPending /\ lock \notin {ByReader, BySaver}
          => /\ reader = "idle" /\ reader' # "idle"
                   => pies_data'.recs = Values(pies)
             /\ saver = "tick" /\ saver' # "tick" => saver' = "save"]_vars

\* C24: a metadata response with a creationDate and without a name is a
\* successful fetch: the step that receives it sets created_at of an
\* entry that had none from the creationDate, and leaves the name as it
\* was.
NamelessCountsAsFetched ==
    [][\A t \in Tasks, resp \in Nameless :
          /\ MetaAnswered(t, get_pie_details(resp))
          /\ pies[CurPie(t).id].created_at = None
          => /\ pies'[CurPie(t).id].created_at = resp.creationDate.v
             /\ pies'[CurPie(t).id].name = pies[CurPie(t).id].name]_vars

\* C29: each entry of the map is stored under the id of its pie, and so
\* is each member of pies.json.
KeyIsId ==
    /\ \A k \in DOMAIN pies : pies[k].id = k
    /\ \A ks \in DOMAIN disk.members : disk.members[ks].id = Num(ks.v)

\* an entry inserted by a task, and written to the file
KeyIsIdWitness ==
    /\ \E k \in DOMAIN pies : k \notin RestoredIds
    /\ \E ks \in DOMAIN disk.members : ks.v \notin RestoredIds

\* C26: a 200 response whose text is a pie list in an accepted shape is
\* handed to the loop that merges it, whatever characters its strings hold:
\* the parse step of such a body goes on with pies_v = the listed pies.
ValidListReconciled ==
    [][\A t \in Tasks :
          /\ Moved(t)
          /\ tasks[t].pc = "body" /\ tasks[t].body.kind = "pies"
          => /\ tasks'[t].pc = "loop"
             /\ tasks'[t].pies_v = tasks[t].body.pies]_vars

\* C25: after a step that pushes a point to total_value_history, no point
\* kept is older than one day before the time of that step (the timestamp
\* of the point pushed last), and the points are in non-decreasing order
\* of their timestamps.
HistoryInWindow ==
    LET h == total_value_history
    IN h # <<>>
          => /\ \A i \in DOMAIN h : h[i].timestamp >= h[Len(h)].timestamp - Day
             /\ \A i, j \in DOMAIN h : i < j => h[i].timestamp <= h[j].timestamp

\* the result that list l holds for pie k
ListedResult(l, k) == l[CHOOSE j \in DOMAIN l : l[j].id = k].result

ListedIds(l) == { l[j].id : j \in DOMAIN l }

\* two tasks ran at the same time, both received a list and both returned Ok
BothFinished ==
    /\ hist.overlap
    /\ Len(hist.received) = 2
    /\ \A t \in Tasks : tasks[t].pc = "done" /\ tasks[t].ret = "Ok"

\* C27: when two overlapping cycles have both finished, every pie that
\* both lists hold has in the map the result of the list that was received
\* later.
LaterListWins ==
    BothFinished
       => \A k \in ListedIds(hist.received[1].pies) \cap
                   ListedIds(hist.received[2].pies) :
             pies[k].result = ListedResult(hist.received[2].pies, k)

\* task t has a pie to merge and needs the lock
WaitsForLock(t) == tasks[t].pc = "loop" /\ tasks[t].pies_v # <<>>

\* C28: with every remote call returning, a guard that is taken is dropped
\* again, and a refresh task that waits for the lock goes on to return.
LockReleasedTasksFinish ==
    /\ (lock # Free) ~> (lock = Free)
    /\ \A t \in Tasks : WaitsForLock(t) ~> (tasks[t].pc = "done")

\* C28 witness: a task waits for the lock that the other task holds across
\* its metadata call, while the GUI thread has found the lock taken.
LockReleasedTasksFinishWitness ==
    \E t, u \in Tasks :
        /\ WaitsForLock(t)
        /\ lock = ByTask(u) /\ tasks[u].pc = "meta"
        /\ reader = "empty"

\* the record of pie k is in the map with its name and its created_at
Enriched(k) ==
    /\ k \in DOMAIN pies
    /\ pies[k].created_at # None
    /\ pies[k].name # None

\* C23: with tasks spawned again and again and scheduled fairly, once the
\* list call and the metadata call for a listed pie succeed for good, the
\* record of the pie comes to hold both name and created_at and holds them
\* ever after.
EnrichedForGood ==
    \A k \in Ids : <>(hist.good = k) => <>[]Enriched(k)

\* C23 witness: a cycle has failed, the remote calls for a pie have begun
\* to succeed and the record of the pie has both fields.
EnrichedForGoodWitness ==
    \E k \in Ids, t \in Tasks :
        /\ hist.good = k
        /\ Enriched(k)
        /\ tasks[t].ret = "Err"
====
